---- MODULE Spec2Model ----
(***************************************************************************)
(* Model of foresight.py: the frame annotation pipeline (nested vessel ->  *)
(* content detection, offset and clipping, per-metric gating, the 3-frame  *)
(* debounce filter, compositing) and the image / video stream driver that  *)
(* handle_run_detection starts from the terminal menu.                     *)
(*                                                                         *)
(* Numbers.  Pixel coordinates are integers.  Every float of the program   *)
(* (measured values, thresholds, confidences) is an exact rational         *)
(* [n |-> numerator, d |-> denominator] with d > 0; comparisons are done   *)
(* by cross multiplication.  A raw detector coordinate is given in half    *)
(* pixels, so that parse_box_info's int() truncation is visible.           *)
(* Strings.  A class label is a sequence of one-character strings, so      *)
(* that lower(), "in" and startswith() are computed, not assumed.          *)
(***************************************************************************)
EXTENDS Integers, Sequences, FiniteSets, TLC

\* ------------------------------------------------------------------------
\* Bounds of the model
\* ------------------------------------------------------------------------
MaxFrames == 5
MaxRuns == 2
MaxConfigOps == 2
MaxSetupOps == 3

\* ------------------------------------------------------------------------
\* Rationals
\* ------------------------------------------------------------------------
R(n, d) == [n |-> n, d |-> d]
RZero == R(0, 1)
RGeq(a, b) == a.n * b.d >= b.n * a.d
RPos(a) == a.n > 0
REq(a, b) == a.n * b.d = b.n * a.d

\* round(n/d) for n >= 0, d > 0, ties to even: what "{:.kf}" prints for a
\* value whose scaled form n/d is exact.
RoundHalfEven(n, d) ==
    LET q == n \div d
        r == n % d
    IN  IF 2 * r < d THEN q
        ELSE IF 2 * r > d THEN q + 1
        ELSE IF q % 2 = 0 THEN q ELSE q + 1

\* f"{x:.1f}" and f"{x:.2f}": the printed decimal, as the integer number of
\* tenths (hundredths).
Fmt1(x) == RoundHalfEven(10 * x.n, x.d)
Fmt2(x) == RoundHalfEven(100 * x.n, x.d)

\* ------------------------------------------------------------------------
\* Strings as character sequences
\* ------------------------------------------------------------------------
UpperChars == <<"A","B","C","D","E","F","G","H","I","J","K","L","M",
                "N","O","P","Q","R","S","T","U","V","W","X","Y","Z">>
LowerChars == <<"a","b","c","d","e","f","g","h","i","j","k","l","m",
                "n","o","p","q","r","s","t","u","v","w","x","y","z">>

\* the other characters of a rendered text ("#": a printed number)
OtherChars == {" ", "#", "|", "=", ","}
LowerMap ==
    [c \in {UpperChars[i] : i \in 1..26} \cup {LowerChars[i] : i \in 1..26}
            \cup OtherChars |->
        IF \E i \in 1..26 : UpperChars[i] = c
        THEN LowerChars[CHOOSE i \in 1..26 : UpperChars[i] = c]
        ELSE c]
LowerChar(c) == LowerMap[c]

\* str.lower()
Lower(s) == [i \in 1..Len(s) |-> LowerChar(s[i])]

\* s.startswith(p)
StartsWith(s, p) == Len(s) >= Len(p) /\ SubSeq(s, 1, Len(p)) = p

\* p in s
Contains(s, p) ==
    \E i \in 1..(Len(s) - Len(p) + 1) : SubSeq(s, i, i + Len(p) - 1) = p

S_vessel == <<"v","e","s","s","e","l">>
S_solid == <<"s","o","l","i","d">>
S_residue == <<"r","e","s","i","d","u","e">>
S_empty == <<"e","m","p","t","y">>
S_homo == <<"h","o","m","o">>
S_hetero == <<"h","e","t","e","r","o">>


\* ------------------------------------------------------------------------
\* The detector's class tables and the frame shape (inputs of the pipeline)
\* ------------------------------------------------------------------------
\* h_obj.vial_model.names / h_obj.contents_model.names: class id -> label.
VialNames == << S_vessel,
                <<"V","e","s","s","e","l">>,
                <<"v","i","a","l">>,
                <<"V","e","s","s","e","l"," ","B">> >>
ContentNames == << <<"H","o","m","o">>,
                   <<"H","e","t","e","r","o">>,
                   <<"S","o","l","i","d">>,
                   <<"R","e","s","i","d","u","e">>,
                   <<"E","m","p","t","y">>,
                   <<"F","o","a","m">>,
                   <<"S","o","l","i","d"," ","R","e","s","i","d","u","e">>,
                   <<"H","e","t","e","r","o"," ","H","o","m","o">> >>
cHomo == 1
cHetero == 2
cSolid == 3
cResidue == 4
cEmpty == 5
cFoam == 6
cSolidResidue == 7
cHeteroHomo == 8

\* annotated.shape[:2] of every frame of the modelled sources.
FrameShape == [h |-> 150, w |-> 120]

NoneVal == "None"
\* An optional value of a compound type: None, or Some(x) with x = o[1].
None == << >>
Some(x) == << x >>

VARIABLES
    \* detection library / models / chosen input (lines 62-68)
    heinsight_module_available, heinsight_obj, input_file, thresholds,
    \* overlay and output behaviour (lines 72-78)
    advanced_overlay, side_by_side, show_top_left_list, show_color_patch,
    debounce_enabled,
    \* per-class toggles (lines 81-86)
    show_label_vessel, show_label_solid, show_label_residue,
    show_label_empty, show_label_homo, show_label_hetero,
    \* per-metric toggles (lines 89-91)
    show_metric_t, show_metric_c, show_metric_v,
    \* lines 96-98
    last_frame_bboxes, debounce_map,
    \* position of the program: "menu", or "video" inside process_video's loop
    pc,
    \* process_video locals: frames read so far, capture / writer still held,
    \* and whether the writer could open its file (out_vid.isOpened())
    frame_idx, cap_open, out_open, out_vid_ok,
    \* the output sink: calls of out_vid.write / cv2.imwrite made by the
    \* current / last run, frames (or image) written by it,
    \* the last one written, what handle_run_detection printed, and whether
    \* the run printed "Could not read image" / "Cannot open video"
    write_calls, written, last_output, run_result, read_error,
    \* run_detection_on_frame of the frame processed last: the detector's
    \* answer (input), the drawable sequence, one record per call of
    \* measure_liquid_overlay that reached the gating, and one record per
    \* vessel_crop taken (line 830)
    cur_scene, all_boxes, measure_log, vessel_crops,
    \* observers: whether the debounce map had entries when
    \* handle_run_detection was entered, the
    \* per (key, metric) run of failing frames since the last qualifying
    \* positive value, and the counters that bound the model
    stale_at_entry, streak, runs, cfg_ops, setup_ops

cfgVars == << thresholds, advanced_overlay, side_by_side, show_top_left_list,
              show_color_patch, debounce_enabled,
              show_label_vessel, show_label_solid, show_label_residue,
              show_label_empty, show_label_homo, show_label_hetero,
              show_metric_t, show_metric_c, show_metric_v >>
setupVars == << heinsight_module_available, heinsight_obj, input_file >>
frameVars == << last_frame_bboxes, debounce_map, cur_scene, all_boxes,
                measure_log, vessel_crops, streak >>
runVars == << pc, frame_idx, cap_open, out_open, out_vid_ok, write_calls,
              written, last_output, run_result, read_error, stale_at_entry, runs >>
vars == << cfgVars, setupVars, frameVars, runVars, cfg_ops, setup_ops >>

\* ------------------------------------------------------------------------
\* Geometry
\* ------------------------------------------------------------------------
Max2(a, b) == IF a >= b THEN a ELSE b
Min2(a, b) == IF a <= b THEN a ELSE b

\* int(v) of a float given in half pixels: truncation toward zero.
IntTrunc(v2) == IF v2 >= 0 THEN v2 \div 2 ELSE -((-v2) \div 2)

\* parse_box_info: (x1, y1, x2, y2, conf, label) of one detector box.
parse_box_info(box, class_names) ==
    [x1 |-> IntTrunc(box.xyxy[1]), y1 |-> IntTrunc(box.xyxy[2]),
     x2 |-> IntTrunc(box.xyxy[3]), y2 |-> IntTrunc(box.xyxy[4]),
     conf |-> box.conf, label |-> class_names[box.cls]]

\* Variant: the clamped pair is not sorted.
ClampSort_Unsorted(a, b, n) ==
    << Max2(0, Min2(n, a)), Max2(0, Min2(n, b)) >>

\* sorted([max(0, min(n, a)), max(0, min(n, b))])
ClampSort(a, b, n) ==
    LET ca == Max2(0, Min2(n, a))
        cb == Max2(0, Min2(n, b))
    IN  << Min2(ca, cb), Max2(ca, cb) >>

\* Number of indices selected by the slice [start:stop] of an axis of
\* length n (negative indices count from the end, out of range is cut).
SliceIndex(i, n) == IF i < 0 THEN Max2(i + n, 0) ELSE Min2(i, n)
SliceLen(start, stop, n) == Max2(0, SliceIndex(stop, n) - SliceIndex(start, n))

\* ------------------------------------------------------------------------
\* Visibility policy
\* ------------------------------------------------------------------------
\* Variant: 'hetero' is looked for before 'homo'.
class_label_is_visible_HeteroFirst(label_name) ==
    LET lbl == Lower(label_name)
    IN  IF Contains(lbl, S_vessel) THEN show_label_vessel
        ELSE IF Contains(lbl, S_solid) THEN show_label_solid
        ELSE IF Contains(lbl, S_residue) THEN show_label_residue
        ELSE IF Contains(lbl, S_empty) THEN show_label_empty
        ELSE IF Contains(lbl, S_hetero) THEN show_label_hetero
        ELSE IF Contains(lbl, S_homo) THEN show_label_homo
        ELSE TRUE

class_label_is_visible(label_name) ==
    LET lbl == Lower(label_name)
    IN  IF Contains(lbl, S_vessel) THEN show_label_vessel
        ELSE IF Contains(lbl, S_solid) THEN show_label_solid
        ELSE IF Contains(lbl, S_residue) THEN show_label_residue
        ELSE IF Contains(lbl, S_empty) THEN show_label_empty
        ELSE IF Contains(lbl, S_homo) THEN show_label_homo
        ELSE IF Contains(lbl, S_hetero) THEN show_label_hetero
        ELSE TRUE

is_liquid_label(label) ==
    StartsWith(Lower(label), S_homo) \/ StartsWith(Lower(label), S_hetero)

\* ------------------------------------------------------------------------
\* Measurement, gating and debouncing
\* ------------------------------------------------------------------------
\* Variant: the colour part is put before the turbidity part.
build_label_str_ColourFirst(turb, hue, vol, show_t, show_c, show_v) ==
    (IF show_c THEN << [m |-> "C", v |-> Fmt1(hue)] >> ELSE << >>) \o
    (IF show_t THEN << [m |-> "T", v |-> Fmt1(turb)] >> ELSE << >>) \o
    (IF show_v THEN << [m |-> "V", v |-> Fmt2(vol)] >> ELSE << >>)

\* ", ".join(parts): the label suffix as the sequence of its parts, each
\* the metric letter and the printed number.
build_label_str(turb, hue, vol, show_t, show_c, show_v) ==
    (IF show_t THEN << [m |-> "T", v |-> Fmt1(turb)] >> ELSE << >>) \o
    (IF show_c THEN << [m |-> "C", v |-> Fmt1(hue)] >> ELSE << >>) \o
    (IF show_v THEN << [m |-> "V", v |-> Fmt2(vol)] >> ELSE << >>)

\* f"{x1}:{y1}:{x2}:{y2}" of four integers: distinct tuples give distinct
\* strings, so the tuple stands for the string.
BoxKey(x1, y1, x2, y2) == << x1, y1, x2, y2 >>

\* The entry created for a key seen for the first time (lines 947-952).
FreshEntry == [last_val |-> RZero, zero_count |-> 3]
FreshKey == [T |-> FreshEntry, C |-> FreshEntry, V |-> FreshEntry]

\* Variant: the value is forced to 0 after 2 failing frames.
UpdateEntry_ShortWindow(entry, do_show, val) ==
    IF do_show
    THEN [last_val |-> val, zero_count |-> 0]
    ELSE LET zc == entry.zero_count + 1
         IN  [last_val |-> IF zc >= 2 THEN RZero ELSE entry.last_val,
              zero_count |-> zc]

\* Variant: a qualifying frame keeps a value that is still retained.
UpdateEntry_Lagging(entry, do_show, val) ==
    IF do_show
    THEN [last_val |-> IF RPos(entry.last_val) THEN entry.last_val ELSE val,
          zero_count |-> 0]
    ELSE LET zc == entry.zero_count + 1
         IN  [last_val |-> IF zc >= 3 THEN RZero ELSE entry.last_val,
              zero_count |-> zc]

\* Variant: the value is forced to 0 one frame late.
UpdateEntry_LateReset(entry, do_show, val) ==
    IF do_show
    THEN [last_val |-> val, zero_count |-> 0]
    ELSE LET zc == entry.zero_count + 1
         IN  [last_val |-> IF zc > 3 THEN RZero ELSE entry.last_val,
              zero_count |-> zc]

\* Variant: zero_count is capped at 3.
UpdateEntry_Saturating(entry, do_show, val) ==
    IF do_show
    THEN [last_val |-> val, zero_count |-> 0]
    ELSE LET zc == Min2(entry.zero_count + 1, 3)
         IN  [last_val |-> IF zc >= 3 THEN RZero ELSE entry.last_val,
              zero_count |-> zc]

\* One of the three "Update" blocks (lines 954-982).
UpdateEntry(entry, do_show, val) ==
    IF do_show
    THEN [last_val |-> val, zero_count |-> 0]
    ELSE LET zc == entry.zero_count + 1
         IN  [last_val |-> IF zc >= 3 THEN RZero ELSE entry.last_val,
              zero_count |-> zc]

\* Variant: the comparison with the minimum is strict.
RawShow_Strict(m, thr) ==
    LET min_turb == IF thr # None THEN thr[1].turb ELSE RZero
        min_col == IF thr # None THEN thr[1].col ELSE RZero
        min_vol == IF thr # None THEN thr[1].vol ELSE RZero
    IN  [T |-> advanced_overlay /\ show_metric_t /\ ~RGeq(min_turb, m.T),
         C |-> advanced_overlay /\ show_metric_c /\ ~RGeq(min_col, m.C),
         V |-> advanced_overlay /\ show_metric_v /\ ~RGeq(min_vol, m.V)]

\* The raw show decisions (lines 933-939) for measured values m.
RawShow(m, thr) ==
    LET min_turb == IF thr # None THEN thr[1].turb ELSE RZero
        min_col == IF thr # None THEN thr[1].col ELSE RZero
        min_vol == IF thr # None THEN thr[1].vol ELSE RZero
    IN  [T |-> advanced_overlay /\ show_metric_t /\ RGeq(m.T, min_turb),
         C |-> advanced_overlay /\ show_metric_c /\ RGeq(m.C, min_col),
         V |-> advanced_overlay /\ show_metric_v /\ RGeq(m.V, min_vol)]

\* Variant: the debouncing is never bypassed.
DebounceBypassed_Never(deb) == FALSE

\* "if not debounce_enabled" (line 942): the debouncing is bypassed.
DebounceBypassed(deb) == ~deb

\* Variant: a metric is taken as qualifying only when all three qualify.
measure_liquid_overlay_AllOrNothing(pix, x1, y1, x2, y2, full_height, thr, deb, dmap) ==
    IF SliceLen(y1, y2, FrameShape.h) * SliceLen(x1, x2, FrameShape.w) = 0
    THEN [str |-> << >>, dmap |-> dmap, patches |-> << >>, log |-> << >>]
    ELSE
    LET box_height == y2 - y1
        m == [T |-> pix.val, C |-> pix.hue,
              V |-> IF full_height > 0 THEN R(box_height, full_height)
                    ELSE RZero]
        patches == IF show_color_patch
                   THEN << [x |-> x2, y |-> y1, hue |-> pix.hue] >>
                   ELSE << >>
        do_show == RawShow(m, thr)
        box_key == BoxKey(x1, y1, x2, y2)
    IN  IF DebounceBypassed(deb)
        THEN LET str == build_label_str(m.T, m.C, m.V,
                                        do_show.T, do_show.C, do_show.V)
             IN  [str |-> str, dmap |-> dmap, patches |-> patches,
                  log |-> << [key |-> box_key, m |-> m, raw |-> do_show,
                              deb |-> FALSE, str |-> str,
                              pre |-> None, post |-> None] >>]
        ELSE
        LET all_show == do_show.T /\ do_show.C /\ do_show.V
            old == IF box_key \in DOMAIN dmap THEN dmap[box_key]
                   ELSE FreshKey
            new == [T |-> UpdateEntry(old.T, all_show, m.T),
                    C |-> UpdateEntry(old.C, all_show, m.C),
                    V |-> UpdateEntry(old.V, all_show, m.V)]
            t_val == new.T.last_val
            c_val == new.C.last_val
            v_val == new.V.last_val
            str == build_label_str(t_val, c_val, v_val,
                                   RPos(t_val), RPos(c_val), RPos(v_val))
            dmap2 == [k \in DOMAIN dmap \cup {box_key} |->
                        IF k = box_key THEN new ELSE dmap[k]]
        IN  [str |-> str, dmap |-> dmap2, patches |-> patches,
             log |-> << [key |-> box_key, m |-> m, raw |-> do_show,
                         deb |-> TRUE, str |-> str,
                         pre |-> Some(old), post |-> Some(new)] >>]

\* measure_liquid_overlay.  pix = the means of the region's pixels
\* ([val, hue]); deb = debounce_enabled; dmap = debounce_map on entry.
\* Result: the returned string, the map afterwards, the colour patches
\* drawn and the log records of the call.
measure_liquid_overlay(pix, x1, y1, x2, y2, full_height, thr, deb, dmap) ==
    IF SliceLen(y1, y2, FrameShape.h) * SliceLen(x1, x2, FrameShape.w) = 0
    THEN [str |-> << >>, dmap |-> dmap, patches |-> << >>, log |-> << >>]
    ELSE
    LET box_height == y2 - y1
        m == [T |-> pix.val, C |-> pix.hue,
              V |-> IF full_height > 0 THEN R(box_height, full_height)
                    ELSE RZero]
        patches == IF show_color_patch
                   THEN << [x |-> x2, y |-> y1, hue |-> pix.hue] >>
                   ELSE << >>
        do_show == RawShow(m, thr)
        box_key == BoxKey(x1, y1, x2, y2)
    IN  IF DebounceBypassed(deb)
        THEN LET str == build_label_str(m.T, m.C, m.V,
                                        do_show.T, do_show.C, do_show.V)
             IN  [str |-> str, dmap |-> dmap, patches |-> patches,
                  log |-> << [key |-> box_key, m |-> m, raw |-> do_show,
                              deb |-> FALSE, str |-> str,
                              pre |-> None, post |-> None] >>]
        ELSE
        LET old == IF box_key \in DOMAIN dmap THEN dmap[box_key]
                   ELSE FreshKey
            new == [T |-> UpdateEntry(old.T, do_show.T, m.T),
                    C |-> UpdateEntry(old.C, do_show.C, m.C),
                    V |-> UpdateEntry(old.V, do_show.V, m.V)]
            t_val == new.T.last_val
            c_val == new.C.last_val
            v_val == new.V.last_val
            str == build_label_str(t_val, c_val, v_val,
                                   RPos(t_val), RPos(c_val), RPos(v_val))
            dmap2 == [k \in DOMAIN dmap \cup {box_key} |->
                        IF k = box_key THEN new ELSE dmap[k]]
        IN  [str |-> str, dmap |-> dmap2, patches |-> patches,
             log |-> << [key |-> box_key, m |-> m, raw |-> do_show,
                         deb |-> TRUE, str |-> str,
                         pre |-> Some(old), post |-> Some(new)] >>]


\* Observer of the raw decisions of one key: per metric, the last positive
\* value that qualified and the number of failing measured frames since
\* (None: no such value yet, or the last qualifying value was 0).
NoStreak == [T |-> None, C |-> None, V |-> None]
StreakStep(old, do_show, val) ==
    IF do_show
    THEN (IF RPos(val) THEN Some([v |-> val, k |-> 0]) ELSE None)
    ELSE (IF old = None THEN None
          ELSE Some([v |-> old[1].v, k |-> old[1].k + 1]))
StreakAfter(stk, rec) ==
    IF ~rec.deb
    THEN [k \in DOMAIN stk \ {rec.key} |-> stk[k]]
    ELSE LET old == IF rec.key \in DOMAIN stk THEN stk[rec.key] ELSE NoStreak
             new == [T |-> StreakStep(old.T, rec.raw.T, rec.m.T),
                     C |-> StreakStep(old.C, rec.raw.C, rec.m.C),
                     V |-> StreakStep(old.V, rec.raw.V, rec.m.V)]
         IN  [k \in DOMAIN stk \cup {rec.key} |->
                IF k = rec.key THEN new ELSE stk[k]]

\* ------------------------------------------------------------------------
\* run_detection_on_frame
\* ------------------------------------------------------------------------
\* The text of a drawable box: f"{label} {conf:.2f}" and, when the
\* measurement string is not empty, " | " + measure_str.
BoxText(label, conf, measure_str) ==
    [label |-> label, conf |-> Fmt2(conf), measure |-> measure_str]

\* The characters of a rendered text; "#" stands for one printed number.
RECURSIVE JoinParts(_)
JoinParts(parts) ==
    IF parts = << >> THEN << >>
    ELSE << parts[1].m, "=", "#" >> \o
         (IF Len(parts) > 1 THEN << ",", " " >> ELSE << >>) \o
         JoinParts(Tail(parts))
TextChars(text) ==
    text.label \o << " ", "#" >> \o
    (IF text.measure # << >>
     THEN << " ", "|", " " >> \o JoinParts(text.measure) ELSE << >>)

VesselColor == "yellow"
OtherColor == "red"
\* line 863
BoxColor(text_label) ==
    IF Contains(Lower(TextChars(text_label)), S_vessel)
    THEN VesselColor ELSE OtherColor

\* Variant: the crop-local coordinates are not shifted.
Offset_NoShift(p, x1v, y1v) ==
    [x1 |-> p.x1, x2 |-> p.x2, y1 |-> p.y1, y2 |-> p.y2]

\* "# offset" (lines 840-843)
Offset(p, x1v, y1v) ==
    [x1 |-> p.x1 + x1v, x2 |-> p.x2 + x1v,
     y1 |-> p.y1 + y1v, y2 |-> p.y2 + y1v]

\* The log record of a call of measure_liquid_overlay, with the observer's
\* view of the key after the call.
LogWithObs(rec, stk) ==
    [key |-> rec.key, m |-> rec.m, raw |-> rec.raw, deb |-> rec.deb,
     str |-> rec.str, pre |-> rec.pre, post |-> rec.post,
     obs |-> IF rec.key \in DOMAIN stk THEN stk[rec.key] ELSE NoStreak]

\* Variant: a content box is put at the front of all_boxes.
ContentAppend_AtFront(p, xs, ys, acc, r, stk) ==
    [boxes |-> << << xs[1], ys[1], xs[2], ys[2],
                     BoxText(p.label, p.conf, r.str) >> >> \o acc.boxes,
     dmap |-> r.dmap,
     patches |-> acc.patches \o r.patches,
     log |-> acc.log \o (IF r.log = << >> THEN << >>
                         ELSE << LogWithObs(r.log[1], stk) >>),
     crops |-> acc.crops, streak |-> stk]

\* acc carries all_boxes, the debounce map, the patches drawn, the
\* measurement log and the observer.  Lines 850-858 for a visible content
\* box: r is the result of measure_liquid_overlay, or the empty result
\* when the box is not measured.
ContentAppend(p, xs, ys, acc, r, stk) ==
    [boxes |-> Append(acc.boxes,
                      << xs[1], ys[1], xs[2], ys[2],
                         BoxText(p.label, p.conf, r.str) >>),
     dmap |-> r.dmap,
     patches |-> acc.patches \o r.patches,
     log |-> acc.log \o (IF r.log = << >> THEN << >>
                         ELSE << LogWithObs(r.log[1], stk) >>),
     crops |-> acc.crops, streak |-> stk]
ContentEmit(p, xs, ys, acc, r) ==
    ContentAppend(p, xs, ys, acc, r,
                  IF r.log = << >> THEN acc.streak
                  ELSE StreakAfter(acc.streak, r.log[1]))

\* Variant: a hidden content box is measured before it is dropped.
ContentHiddenMeasured(acc, r) ==
    [boxes |-> acc.boxes, dmap |-> r.dmap,
     patches |-> acc.patches \o r.patches,
     log |-> acc.log \o r.log, crops |-> acc.crops, streak |-> acc.streak]
ContentClipped_MeasureHidden(p, pix, xs, ys, thr, deb, acc) ==
    IF ~class_label_is_visible(p.label)
    THEN ContentHiddenMeasured(acc,
            IF advanced_overlay /\ is_liquid_label(p.label)
            THEN measure_liquid_overlay(pix, xs[1], ys[1], xs[2], ys[2],
                                        FrameShape.h, thr, deb, acc.dmap)
            ELSE [str |-> << >>, dmap |-> acc.dmap,
                  patches |-> << >>, log |-> << >>])
    ELSE ContentEmit(p, xs, ys, acc,
            IF advanced_overlay /\ is_liquid_label(p.label)
            THEN measure_liquid_overlay(pix, xs[1], ys[1], xs[2], ys[2],
                                        FrameShape.h, thr, deb, acc.dmap)
            ELSE [str |-> << >>, dmap |-> acc.dmap,
                  patches |-> << >>, log |-> << >>])

\* Lines 847-858 for a content box clipped to xs = (x1c, x2c), ys = (y1c, y2c).
ContentClipped(p, pix, xs, ys, thr, deb, acc) ==
    IF ~class_label_is_visible(p.label)
    THEN acc
    ELSE ContentEmit(p, xs, ys, acc,
            IF advanced_overlay /\ is_liquid_label(p.label)
            THEN measure_liquid_overlay(pix, xs[1], ys[1], xs[2], ys[2],
                                        FrameShape.h, thr, deb, acc.dmap)
            ELSE [str |-> << >>, dmap |-> acc.dmap,
                  patches |-> << >>, log |-> << >>])

\* Variant: the shifted box is sorted but not cut to the frame.
ContentShifted_Unclipped(p, pix, o, thr, deb, acc) ==
    ContentClipped(p, pix, << Min2(o.x1, o.x2), Max2(o.x1, o.x2) >>,
                   << Min2(o.y1, o.y2), Max2(o.y1, o.y2) >>, thr, deb, acc)

\* Lines 844-845 for the shifted box o.
ContentShifted(p, pix, o, thr, deb, acc) ==
    ContentClipped(p, pix, ClampSort(o.x1, o.x2, FrameShape.w),
                   ClampSort(o.y1, o.y2, FrameShape.h), thr, deb, acc)

\* The body of the loop over c_boxes (lines 838-858) for the parsed box p.
ContentBody(p, pix, x1v, y1v, thr, deb, acc) ==
    ContentShifted(p, pix, Offset(p, x1v, y1v), thr, deb, acc)

\* The loop over c_boxes (lines 837-858) from index i on.
RECURSIVE ContentLoop(_, _, _, _, _, _, _)
ContentLoop(c_boxes, i, x1v, y1v, thr, deb, acc) ==
    IF i > Len(c_boxes) THEN acc
    ELSE ContentLoop(c_boxes, i + 1, x1v, y1v, thr, deb,
             ContentBody(parse_box_info(c_boxes[i], ContentNames),
                         c_boxes[i].pix, x1v, y1v, thr, deb, acc))

\* vessel_crop = annotated[y1v:y2v, x1v:x2v] (line 830) is recorded with
\* its size; predicted: contents_model.predict is called on it (line 834);
\* boxes_before: len(all_boxes) when the vessel's iteration began.
AccWithCrop(acc, v, predicted, nb) ==
    [boxes |-> acc.boxes, dmap |-> acc.dmap, patches |-> acc.patches,
     log |-> acc.log,
     crops |-> Append(acc.crops,
                 [box |-> v,
                  size |-> SliceLen(v[2], v[4], FrameShape.h)
                           * SliceLen(v[1], v[3], FrameShape.w),
                  predicted |-> predicted,
                  boxes_before |-> nb]),
     streak |-> acc.streak]

\* Lines 829-858 for a vessel whose box is v = (x1v, y1v, x2v, y2v) at
\* that point; acc already holds the vessel's own box when it is drawn.
VesselCrop(contents, v, thr, deb, acc, nb) ==
    IF SliceLen(v[2], v[4], FrameShape.h) * SliceLen(v[1], v[3], FrameShape.w) = 0
    THEN AccWithCrop(acc, v, FALSE, nb)
    ELSE ContentLoop(contents, 1, v[1], v[2], thr, deb,
                     AccWithCrop(acc, v, TRUE, nb))

\* Lines 818-827 for the parsed vessel box p: a vessel labelled "vessel"
\* whose toggle is off is neither clipped nor drawn.
VesselClipped(contents, p, xs, ys, thr, deb, acc) ==
    IF Lower(p.label) = S_vessel /\ ~show_label_vessel
    THEN VesselCrop(contents, << p.x1, p.y1, p.x2, p.y2 >>, thr, deb, acc,
                    Len(acc.boxes))
    ELSE VesselCrop(contents, << xs[1], ys[1], xs[2], ys[2] >>, thr, deb,
            [boxes |-> Append(acc.boxes,
                              << xs[1], ys[1], xs[2], ys[2],
                                 BoxText(p.label, p.conf, << >>) >>),
             dmap |-> acc.dmap, patches |-> acc.patches,
             log |-> acc.log, crops |-> acc.crops, streak |-> acc.streak],
            Len(acc.boxes))

\* The body of the loop over v_boxes (lines 818-858).
VesselBody(contents, p, thr, deb, acc) ==
    VesselClipped(contents, p, ClampSort(p.x1, p.x2, FrameShape.w),
                  ClampSort(p.y1, p.y2, FrameShape.h), thr, deb, acc)

\* The loop over v_boxes (lines 817-858) from index i on.
RECURSIVE VesselLoop(_, _, _, _, _)
VesselLoop(v_boxes, i, thr, deb, acc) ==
    IF i > Len(v_boxes) THEN acc
    ELSE VesselLoop(v_boxes, i + 1, thr, deb,
             VesselBody(v_boxes[i].contents,
                        parse_box_info(v_boxes[i], VialNames), thr, deb, acc))

\* Lines 860-870: the boxes are drawn and their texts recorded.
FrameResult(src, acc) ==
    [annotated |->
        Some([src |-> src,
              drawn |-> [j \in 1..Len(acc.boxes) |->
                           [box |-> SubSeq(acc.boxes[j], 1, 4),
                            text |-> acc.boxes[j][5],
                            color |-> BoxColor(acc.boxes[j][5])]],
              patches |-> acc.patches]),
     all_boxes |-> acc.boxes,
     labels |-> [j \in 1..Len(acc.boxes) |-> acc.boxes[j][5]],
     dmap |-> acc.dmap, log |-> acc.log, crops |-> acc.crops,
     streak |-> acc.streak]

\* Variant: a frame without a vessel leaves the label list as it was.
run_detection_on_frame_KeepsLabels(src, v_boxes, thr, deb, dmap, stk) ==
    IF Len(v_boxes) = 0
    THEN [annotated |-> None, all_boxes |-> << >>,
          labels |-> last_frame_bboxes,
          dmap |-> dmap, log |-> << >>, crops |-> << >>, streak |-> stk]
    ELSE FrameResult(src, VesselLoop(v_boxes, 1, thr, deb,
                   [boxes |-> << >>, dmap |-> dmap, patches |-> << >>,
                    log |-> << >>, crops |-> << >>, streak |-> stk]))

\* Variant: a frame without a vessel counts as a failing frame for every
\* entry of the map.
run_detection_on_frame_AgesUnseen(src, v_boxes, thr, deb, dmap, stk) ==
    IF Len(v_boxes) = 0
    THEN [annotated |-> None, all_boxes |-> << >>, labels |-> << >>,
          dmap |-> [k \in DOMAIN dmap |->
                      [T |-> UpdateEntry(dmap[k].T, FALSE, RZero),
                       C |-> UpdateEntry(dmap[k].C, FALSE, RZero),
                       V |-> UpdateEntry(dmap[k].V, FALSE, RZero)]],
          log |-> << >>, crops |-> << >>, streak |-> stk]
    ELSE FrameResult(src, VesselLoop(v_boxes, 1, thr, deb,
                   [boxes |-> << >>, dmap |-> dmap, patches |-> << >>,
                    log |-> << >>, crops |-> << >>, streak |-> stk]))

\* run_detection_on_frame(frame, h_obj, thr) on frame number src, for which
\* the two detectors answer v_boxes (each vessel box with the content boxes
\* found in its crop).  annotated = None is the "return None".
run_detection_on_frame(src, v_boxes, thr, deb, dmap, stk) ==
    IF Len(v_boxes) = 0
    THEN [annotated |-> None, all_boxes |-> << >>, labels |-> << >>,
          dmap |-> dmap, log |-> << >>, crops |-> << >>, streak |-> stk]
    ELSE FrameResult(src, VesselLoop(v_boxes, 1, thr, deb,
                   [boxes |-> << >>, dmap |-> dmap, patches |-> << >>,
                    log |-> << >>, crops |-> << >>, streak |-> stk]))

\* ------------------------------------------------------------------------
\* What the detectors can answer for a frame (bounded input sets)
\* ------------------------------------------------------------------------
Conf == R(873, 1000)
PixHi == [val |-> R(151, 3), hue |-> R(20, 1)]
CBox(xyxy, cls, pix) == [xyxy |-> xyxy, conf |-> Conf, cls |-> cls, pix |-> pix]
VBox(xyxy, cls, contents) ==
    [xyxy |-> xyxy, conf |-> Conf, cls |-> cls, contents |-> contents]

\* Raw boxes in half pixels.
VesselA == << 20, 20, 220, 180 >>
LocalA == << 10, 10, 30, 40 >>
LocalB == << 41, 60, 101, 141 >>
GeomVessels == { << 20, 20, 220, 220 >>, << -21, -9, 300, 400 >>,
                 << 181, 161, 40, 21 >>, << 260, 20, 300, 90 >>,
                 << -11, -11, 100, 100 >> }
GeomLocals == { << 10, 10, 30, 30 >>, << 200, 200, 600, 600 >>,
                << 31, 30, 11, 10 >>, << -60, -61, -20, -21 >> }

\* one static liquid region whose pixel means vary from frame to frame
PixValues == { [val |-> R(0, 1), hue |-> R(0, 1)],
               [val |-> R(30, 1), hue |-> R(20, 1)],
               [val |-> R(151, 3), hue |-> R(0, 1)],
               PixHi }
DebounceScenes ==
    { << VBox(VesselA, 1, << CBox(LocalA, cHomo, pix) >>) >> :
        pix \in PixValues }
    \cup
    { << VBox(VesselA, 1, cs) >> :
        cs \in { << CBox(LocalA, cHomo, PixHi), CBox(LocalB, cHetero, PixHi) >>,
                 << CBox(LocalA, cSolid, PixHi) >> } }
\* boxes outside the frame, negative, inverted
GeomScenes ==
    { << VBox(v, 1, << CBox(c, cSolid, PixHi) >>) >> :
        v \in GeomVessels, c \in GeomLocals }
    \cup
    { << VBox(<< 20, 20, 220, 220 >>, 1, << CBox(c, cHetero, PixHi) >>) >> :
        c \in GeomLocals }
    \cup
    \* a liquid reported larger than the whole frame
    { << VBox(<< 0, 0, 240, 300 >>, 1,
              << CBox(<< -20, -20, 400, 700 >>, cHomo, PixHi) >>) >> }
\* every class label of the two tables
LabelScenes ==
    { << VBox(VesselA, v, << CBox(LocalA, c, PixHi) >>) >> :
        v \in 1..Len(VialNames), c \in 1..Len(ContentNames) }
\* several vessels with several content boxes, neither in the order of
\* their positions nor in the order of their confidences
ConfLow == R(1, 2)
OrderScenes ==
    { << VBox(VesselA, 1, << [CBox(LocalA, cSolid, PixHi) EXCEPT !.conf = ConfLow],
                             CBox(LocalB, cHomo, PixHi) >>),
         VBox(<< 260, 20, 300, 90 >>, 1, << CBox(LocalA, cSolid, PixHi) >>),
         VBox(<< 4, 6, 100, 200 >>, 3,
              << CBox(LocalB, cEmpty, PixHi),
                 [CBox(LocalA, cResidue, PixHi) EXCEPT !.conf = ConfLow] >>) >> }
\* the frames of the stream driver: no vessel, a liquid that qualifies, a
\* liquid whose measured values are 0
DriverScenes ==
    { << >> } \cup
    { << VBox(VesselA, 1, << CBox(LocalA, cHomo, pix) >>) >> :
        pix \in { PixHi, [val |-> R(0, 1), hue |-> R(0, 1)] } }
\* the frames of a video watched for its measurements
VideoScenes == { << >> } \cup DebounceScenes
\* the frames of a single image
ImageScenes == VideoScenes \cup GeomScenes \cup LabelScenes \cup OrderScenes

\* What the user can type in handle_set_thresholds: the defaults, and a set
\* that asks for more volume.
ThresholdChoices ==
    { [turb |-> R(50, 1), col |-> R(20, 1), vol |-> R(1, 10), conf |-> R(4, 10)],
      [turb |-> R(30, 1), col |-> R(0, 1), vol |-> R(1, 2), conf |-> R(1, 4)] }


\* ------------------------------------------------------------------------
\* Initial state (module level, lines 62-98)
\* ------------------------------------------------------------------------
Init ==
    /\ heinsight_module_available = FALSE
    /\ heinsight_obj = NoneVal
    /\ input_file = NoneVal
    /\ thresholds = None
    /\ advanced_overlay = TRUE
    /\ side_by_side = FALSE
    /\ show_top_left_list = FALSE
    /\ show_color_patch = FALSE
    /\ debounce_enabled = FALSE
    /\ show_label_vessel = TRUE
    /\ show_label_solid = TRUE
    /\ show_label_residue = TRUE
    /\ show_label_empty = TRUE
    /\ show_label_homo = TRUE
    /\ show_label_hetero = TRUE
    /\ show_metric_t = TRUE
    /\ show_metric_c = TRUE
    /\ show_metric_v = TRUE
    /\ last_frame_bboxes = << >>
    /\ debounce_map = << >>
    /\ pc = "menu"
    /\ frame_idx = 0
    /\ cap_open = FALSE
    /\ out_open = FALSE
    /\ out_vid_ok = FALSE
    /\ write_calls = 0
    /\ written = 0
    /\ last_output = None
    /\ run_result = NoneVal
    /\ read_error = FALSE
    /\ cur_scene = None
    /\ all_boxes = << >>
    /\ measure_log = << >>
    /\ vessel_crops = << >>
    /\ stale_at_entry = FALSE
    /\ streak = << >>
    /\ runs = 0
    /\ cfg_ops = 0
    /\ setup_ops = 0

\* ------------------------------------------------------------------------
\* Menu handlers that change the configuration
\* ------------------------------------------------------------------------
CfgStep == pc = "menu" /\ cfg_ops < MaxConfigOps /\ cfg_ops' = cfg_ops + 1
           /\ UNCHANGED << setupVars, frameVars, runVars, setup_ops >>

handle_toggle_debouncing ==
    /\ CfgStep
    /\ debounce_enabled' = ~debounce_enabled
    /\ UNCHANGED << thresholds, advanced_overlay, side_by_side,
                    show_top_left_list, show_color_patch,
                    show_label_vessel, show_label_solid, show_label_residue,
                    show_label_empty, show_label_homo, show_label_hetero,
                    show_metric_t, show_metric_c, show_metric_v >>

handle_toggle_overlay ==
    /\ CfgStep
    /\ advanced_overlay' = ~advanced_overlay
    /\ UNCHANGED << thresholds, debounce_enabled, side_by_side,
                    show_top_left_list, show_color_patch,
                    show_label_vessel, show_label_solid, show_label_residue,
                    show_label_empty, show_label_homo, show_label_hetero,
                    show_metric_t, show_metric_c, show_metric_v >>

handle_toggle_side_by_side ==
    /\ CfgStep
    /\ side_by_side' = ~side_by_side
    /\ UNCHANGED << thresholds, advanced_overlay, debounce_enabled,
                    show_top_left_list, show_color_patch,
                    show_label_vessel, show_label_solid, show_label_residue,
                    show_label_empty, show_label_homo, show_label_hetero,
                    show_metric_t, show_metric_c, show_metric_v >>

handle_toggle_top_left_list ==
    /\ CfgStep
    /\ show_top_left_list' = ~show_top_left_list
    /\ UNCHANGED << thresholds, advanced_overlay, side_by_side,
                    debounce_enabled, show_color_patch,
                    show_label_vessel, show_label_solid, show_label_residue,
                    show_label_empty, show_label_homo, show_label_hetero,
                    show_metric_t, show_metric_c, show_metric_v >>

handle_toggle_color_patch ==
    /\ CfgStep
    /\ show_color_patch' = ~show_color_patch
    /\ UNCHANGED << thresholds, advanced_overlay, side_by_side,
                    show_top_left_list, debounce_enabled,
                    show_label_vessel, show_label_solid, show_label_residue,
                    show_label_empty, show_label_homo, show_label_hetero,
                    show_metric_t, show_metric_c, show_metric_v >>

handle_set_thresholds ==
    /\ CfgStep
    /\ \E thr \in ThresholdChoices : thresholds' = Some(thr)
    /\ UNCHANGED << debounce_enabled, advanced_overlay, side_by_side,
                    show_top_left_list, show_color_patch,
                    show_label_vessel, show_label_solid, show_label_residue,
                    show_label_empty, show_label_homo, show_label_hetero,
                    show_metric_t, show_metric_c, show_metric_v >>

\* choices 1-6 of submenu_label_visibility
submenu_label_visibility ==
    /\ CfgStep
    /\ \E choice \in 1..6 :
        /\ show_label_vessel' = (IF choice = 1 THEN ~show_label_vessel
                                 ELSE show_label_vessel)
        /\ show_label_solid' = (IF choice = 2 THEN ~show_label_solid
                                ELSE show_label_solid)
        /\ show_label_residue' = (IF choice = 3 THEN ~show_label_residue
                                  ELSE show_label_residue)
        /\ show_label_empty' = (IF choice = 4 THEN ~show_label_empty
                                ELSE show_label_empty)
        /\ show_label_homo' = (IF choice = 5 THEN ~show_label_homo
                               ELSE show_label_homo)
        /\ show_label_hetero' = (IF choice = 6 THEN ~show_label_hetero
                                 ELSE show_label_hetero)
    /\ UNCHANGED << thresholds, debounce_enabled, advanced_overlay,
                    side_by_side, show_top_left_list, show_color_patch,
                    show_metric_t, show_metric_c, show_metric_v >>

\* choices 1-3 of submenu_metric_visibility
submenu_metric_visibility ==
    /\ CfgStep
    /\ \E choice \in 1..3 :
        /\ show_metric_t' = (IF choice = 1 THEN ~show_metric_t
                             ELSE show_metric_t)
        /\ show_metric_c' = (IF choice = 2 THEN ~show_metric_c
                             ELSE show_metric_c)
        /\ show_metric_v' = (IF choice = 3 THEN ~show_metric_v
                             ELSE show_metric_v)
    /\ UNCHANGED << thresholds, debounce_enabled, advanced_overlay,
                    side_by_side, show_top_left_list, show_color_patch,
                    show_label_vessel, show_label_solid, show_label_residue,
                    show_label_empty, show_label_homo, show_label_hetero >>

\* ------------------------------------------------------------------------
\* Menu handlers that set up the library, the models and the input
\* ------------------------------------------------------------------------
\* attempt_import_heinsight: the import succeeds or raises ImportError.
SetupStep == pc = "menu" /\ setup_ops < MaxSetupOps
             /\ setup_ops' = setup_ops + 1
             /\ UNCHANGED << cfgVars, frameVars, runVars, cfg_ops >>

attempt_import_heinsight ==
    /\ SetupStep
    /\ ~heinsight_module_available
    /\ \E ok \in BOOLEAN : heinsight_module_available' = ok
    /\ UNCHANGED << heinsight_obj, input_file >>

\* handle_reload_models -> load_heinsight_models: the constructor succeeds
\* or raises.
handle_reload_models ==
    /\ SetupStep
    /\ heinsight_module_available
    /\ \E ok \in BOOLEAN :
         heinsight_obj' = IF ok THEN "HeinSight" ELSE NoneVal
    /\ UNCHANGED << heinsight_module_available, input_file >>

\* handle_pick_input_file: a chosen existing file is stored (its extension
\* makes it an image or a video); a cancelled dialog changes nothing.
handle_pick_input_file ==
    /\ SetupStep
    /\ \E chosen \in {"image", "video"} : input_file' = chosen
    /\ UNCHANGED << heinsight_module_available, heinsight_obj >>


\* ------------------------------------------------------------------------
\* Image / video processing
\* ------------------------------------------------------------------------
OriginalFrame(src) == [src |-> src, drawn |-> << >>, patches |-> << >>]

\* Variant: the summary is drawn from the label list of the frame before.
Compose_StaleLines(src, r, labels) ==
    LET annotated == IF r.annotated = None THEN OriginalFrame(src)
                     ELSE r.annotated[1]
    IN  [left |-> IF side_by_side THEN Some(OriginalFrame(src)) ELSE None,
         right |-> annotated,
         lines |-> IF show_top_left_list
                   THEN (IF labels = << >> THEN last_frame_bboxes ELSE labels)
                   ELSE << >>]

\* Lines 726-735 and 773-781 after run_detection_on_frame returned r: the
\* substitution of the frame for None, combine_side_by_side and
\* draw_top_left_list.  labels is last_frame_bboxes at that point.
Compose(src, r, labels) ==
    LET annotated == IF r.annotated = None THEN OriginalFrame(src)
                     ELSE r.annotated[1]
    IN  [left |-> IF side_by_side THEN Some(OriginalFrame(src)) ELSE None,
         right |-> annotated,
         lines |-> IF show_top_left_list THEN labels ELSE << >>]

\* The effect of one call of run_detection_on_frame on the globals, and
\* the frame handed to the writer.
FrameEffect(src, scene, r) ==
    /\ last_frame_bboxes' = r.labels
    /\ debounce_map' = r.dmap
    /\ cur_scene' = Some(scene)
    /\ all_boxes' = r.all_boxes
    /\ measure_log' = r.log
    /\ vessel_crops' = r.crops
    /\ streak' = r.streak
    /\ last_output' = Some(Compose(src, r, r.labels))
AnnotateFrame(src, scene) ==
    FrameEffect(src, scene,
        run_detection_on_frame(src, scene, thresholds, debounce_enabled,
                               debounce_map, streak))

RunEntry ==
    /\ pc = "menu"
    /\ runs < MaxRuns
    /\ runs' = runs + 1
    /\ stale_at_entry' = (debounce_map # << >>)

\* Variant: a refused run empties the label list and the debounce map.
handle_run_detection_refused_Resets ==
    /\ RunEntry
    /\ \E isfile \in BOOLEAN :
        /\ ~heinsight_module_available \/ heinsight_obj = NoneVal
           \/ input_file = NoneVal \/ ~isfile
        /\ run_result' = IF ~heinsight_module_available
                         THEN "not_imported"
                         ELSE IF heinsight_obj = NoneVal
                         THEN "not_loaded" ELSE "no_input"
    /\ read_error' = FALSE
    /\ last_frame_bboxes' = << >>
    /\ debounce_map' = << >>
    /\ UNCHANGED << cfgVars, setupVars, cur_scene, all_boxes, measure_log,
                    vessel_crops, streak, cfg_ops, setup_ops, pc,
                    frame_idx,
                    cap_open, out_open, out_vid_ok, write_calls, written,
                    last_output >>

\* handle_run_detection, lines 458-466: the three refusals.
handle_run_detection_refused ==
    /\ RunEntry
    /\ \E isfile \in BOOLEAN :
        /\ ~heinsight_module_available \/ heinsight_obj = NoneVal
           \/ input_file = NoneVal \/ ~isfile
        /\ run_result' = IF ~heinsight_module_available
                         THEN "not_imported"
                         ELSE IF heinsight_obj = NoneVal
                         THEN "not_loaded" ELSE "no_input"
    /\ read_error' = FALSE
    /\ UNCHANGED << cfgVars, setupVars, frameVars, cfg_ops, setup_ops, pc,
                    frame_idx,
                    cap_open, out_open, out_vid_ok, write_calls, written,
                    last_output >>

RunAccepted ==
    /\ RunEntry
    /\ heinsight_module_available
    /\ heinsight_obj # NoneVal
    /\ input_file # NoneVal

\* Variant: the detection is run on an image that could not be read.
process_image_DetectsUnreadable(scenes) ==
    /\ RunAccepted
    /\ input_file = "image"
    /\ \E outcome \in {"unreadable", "raises", "written", "write_failed"} :
        \/ /\ outcome = "unreadable"
           /\ run_result' = "not_saved"
           /\ read_error' = TRUE
           /\ write_calls' = 0
           /\ written' = 0
           /\ \E scene \in scenes : AnnotateFrame(1, scene)
        \/ /\ outcome = "raises"
           /\ last_frame_bboxes' = << >>
           /\ run_result' = "error"
           /\ read_error' = FALSE
           /\ write_calls' = 0
           /\ written' = 0
           /\ UNCHANGED << debounce_map, cur_scene, all_boxes, measure_log,
                           vessel_crops, streak, last_output >>
        \/ /\ outcome \in {"written", "write_failed"}
           /\ \E scene \in scenes : AnnotateFrame(1, scene)
           /\ write_calls' = 1
           /\ written' = IF outcome = "written" THEN 1 ELSE 0
           /\ run_result' = IF outcome = "written" THEN "saved"
                            ELSE "not_saved"
           /\ read_error' = FALSE
    /\ UNCHANGED << cfgVars, setupVars, cfg_ops, setup_ops, pc, frame_idx,
                    cap_open,
                    out_open, out_vid_ok >>

\* handle_run_detection on an image: process_image as a whole.
process_image(scenes) ==
    /\ RunAccepted
    /\ input_file = "image"
    /\ \E outcome \in {"unreadable", "raises", "written", "write_failed"} :
        \/ /\ outcome = "unreadable"
           /\ run_result' = "not_saved"
           /\ read_error' = TRUE
           /\ write_calls' = 0
           /\ written' = 0
           /\ UNCHANGED << frameVars, last_output >>
        \/ /\ outcome = "raises"
           /\ last_frame_bboxes' = << >>
           /\ run_result' = "error"
           /\ read_error' = FALSE
           /\ write_calls' = 0
           /\ written' = 0
           /\ UNCHANGED << debounce_map, cur_scene, all_boxes, measure_log,
                           vessel_crops, streak, last_output >>
        \/ /\ outcome \in {"written", "write_failed"}
           /\ \E scene \in scenes : AnnotateFrame(1, scene)
           /\ write_calls' = 1
           /\ written' = IF outcome = "written" THEN 1 ELSE 0
           /\ run_result' = IF outcome = "written" THEN "saved"
                            ELSE "not_saved"
           /\ read_error' = FALSE
    /\ UNCHANGED << cfgVars, setupVars, cfg_ops, setup_ops, pc, frame_idx,
                    cap_open,
                    out_open, out_vid_ok >>

\* Variant: the debounce map is not cleared.
process_video_open_NoClear(writer_outcomes) ==
    /\ RunAccepted
    /\ input_file = "video"
    /\ write_calls' = 0
    /\ written' = 0
    /\ \E opened \in BOOLEAN, writer_ok \in writer_outcomes :
        IF opened
        THEN /\ pc' = "video"
             /\ frame_idx' = 0
             /\ cap_open' = TRUE
             /\ out_open' = TRUE
             /\ out_vid_ok' = writer_ok
             /\ read_error' = FALSE
             /\ UNCHANGED run_result
        ELSE /\ run_result' = "not_saved"
             /\ read_error' = TRUE
             /\ UNCHANGED << pc, frame_idx, cap_open, out_open, out_vid_ok >>
    /\ UNCHANGED << cfgVars, setupVars, cfg_ops, setup_ops, frameVars,
                    last_output >>

\* handle_run_detection on a video: process_video up to the loop
\* (lines 746-766).  The capture opens or not (line 750); the writer is
\* created without a test of out_vid.isOpened() (line 764).
process_video_open(writer_outcomes) ==
    /\ RunAccepted
    /\ input_file = "video"
    /\ debounce_map' = << >>
    /\ streak' = << >>
    /\ write_calls' = 0
    /\ written' = 0
    /\ \E opened \in BOOLEAN, writer_ok \in writer_outcomes :
        IF opened
        THEN /\ pc' = "video"
             /\ frame_idx' = 0
             /\ cap_open' = TRUE
             /\ out_open' = TRUE
             /\ out_vid_ok' = writer_ok
             /\ read_error' = FALSE
             /\ UNCHANGED run_result
        ELSE /\ run_result' = "not_saved"
             /\ read_error' = TRUE
             /\ UNCHANGED << pc, frame_idx, cap_open, out_open, out_vid_ok >>
    /\ UNCHANGED << cfgVars, setupVars, cfg_ops, setup_ops,
                    last_frame_bboxes, cur_scene,
                    all_boxes, measure_log, vessel_crops, last_output >>

\* Variant: a frame without a vessel is not handed to the writer.
process_video_frame_SkipsUnannotated(scenes) ==
    /\ pc = "video"
    /\ frame_idx < MaxFrames
    /\ frame_idx' = frame_idx + 1
    /\ \E scene \in scenes :
        /\ AnnotateFrame(frame_idx + 1, scene)
        /\ write_calls' = IF scene = << >> THEN write_calls
                          ELSE write_calls + 1
        /\ written' = IF out_vid_ok /\ scene # << >> THEN written + 1
                      ELSE written
    /\ UNCHANGED << cfgVars, setupVars, cfg_ops, setup_ops, pc, cap_open,
                    out_open, out_vid_ok,
                    run_result, read_error, stale_at_entry, runs >>

\* One iteration of the loop with a frame read (lines 768-784).
process_video_frame(scenes) ==
    /\ pc = "video"
    /\ frame_idx < MaxFrames
    /\ frame_idx' = frame_idx + 1
    /\ \E scene \in scenes : AnnotateFrame(frame_idx + 1, scene)
    /\ write_calls' = write_calls + 1
    \* out_vid.write on a writer that did not open writes nothing
    /\ written' = IF out_vid_ok THEN written + 1 ELSE written
    /\ UNCHANGED << cfgVars, setupVars, cfg_ops, setup_ops, pc, cap_open,
                    out_open, out_vid_ok,
                    run_result, read_error, stale_at_entry, runs >>

\* An iteration in which the detector raises: the exception leaves
\* process_video and is caught in handle_run_detection (lines 494-496).
process_video_raises ==
    /\ pc = "video"
    /\ frame_idx < MaxFrames
    /\ frame_idx' = frame_idx + 1
    /\ last_frame_bboxes' = << >>
    /\ pc' = "menu"
    /\ run_result' = "error"
    /\ UNCHANGED << cfgVars, setupVars, cfg_ops, setup_ops, debounce_map,
                    cur_scene,
                    all_boxes, measure_log, vessel_crops, streak, cap_open,
                    out_open, out_vid_ok, read_error, write_calls,
                    written, last_output, stale_at_entry, runs >>

\* cap.read() fails: the loop ends, both are released (lines 769-790).
process_video_end ==
    /\ pc = "video"
    /\ pc' = "menu"
    /\ cap_open' = FALSE
    /\ out_open' = FALSE
    /\ run_result' = "saved"
    /\ UNCHANGED << cfgVars, setupVars, cfg_ops, setup_ops, frameVars,
                    frame_idx, out_vid_ok, read_error, write_calls,
                    written, last_output, stale_at_entry, runs >>

Next ==
    \/ handle_toggle_debouncing
    \/ handle_toggle_overlay
    \/ handle_toggle_side_by_side
    \/ handle_toggle_top_left_list
    \/ handle_toggle_color_patch
    \/ handle_set_thresholds
    \/ submenu_label_visibility
    \/ submenu_metric_visibility
    \/ attempt_import_heinsight
    \/ handle_reload_models
    \/ handle_pick_input_file
    \/ handle_run_detection_refused
    \/ process_image(DriverScenes)
    \/ process_video_open(BOOLEAN)
    \/ process_video_frame(DriverScenes)
    \/ process_video_raises
    \/ process_video_end

Spec == Init /\ [][Next]_vars

\* The annotation of single images, for every answer of the detectors in
\* ImageScenes: the menu handlers and one image run.
NextImage ==
    \/ handle_toggle_debouncing
    \/ handle_toggle_overlay
    \/ handle_toggle_side_by_side
    \/ handle_toggle_top_left_list
    \/ handle_toggle_color_patch
    \/ handle_set_thresholds
    \/ submenu_label_visibility
    \/ submenu_metric_visibility
    \/ attempt_import_heinsight
    \/ handle_reload_models
    \/ handle_pick_input_file
    \/ (runs = 0 /\ process_image(ImageScenes))

SpecImage == Init /\ [][NextImage]_vars

\* The measurements of a video: the handlers that decide the raw show
\* decisions and the debouncing, and video runs over VideoScenes.
NextVideo ==
    \/ handle_toggle_debouncing
    \/ handle_set_thresholds
    \/ submenu_metric_visibility
    \/ attempt_import_heinsight
    \/ handle_reload_models
    \/ handle_pick_input_file
    \/ process_video_open({TRUE})
    \/ process_video_frame(VideoScenes)
    \/ process_video_end

SpecVideo == Init /\ [][NextVideo]_vars

\* The stream driver with its scheduling: process_video is one thread of
\* control that runs its loop without waiting for anything, so a step of
\* the loop (a frame read and processed, an exception, or the failed read
\* that ends it) is taken whenever the program is inside the loop.
VideoLoopStep ==
    \/ process_video_frame(DriverScenes)
    \/ process_video_raises
    \/ process_video_end
NextStream ==
    \/ handle_toggle_side_by_side
    \/ handle_toggle_top_left_list
    \/ attempt_import_heinsight
    \/ handle_reload_models
    \/ handle_pick_input_file
    \/ process_video_open(BOOLEAN)
    \/ process_video_frame(DriverScenes)
    \/ process_video_raises
    \/ process_video_end
SpecStream == Init /\ [][NextStream]_vars /\ WF_vars(VideoLoopStep)


\* ------------------------------------------------------------------------
\* Properties
\* ------------------------------------------------------------------------
Metrics == {"T", "C", "V"}
\* the number printed for metric mt of value x
FmtOf(mt, x) == IF mt = "V" THEN Fmt2(x) ELSE Fmt1(x)
\* the numbers a label suffix shows for metric mt
Shown(str, mt) == { str[i].v : i \in { j \in 1..Len(str) : str[j].m = mt } }
LogRecords == { measure_log[i] : i \in 1..Len(measure_log) }

\* A step in which a frame went through run_detection_on_frame and was
\* handed to the writer: a frame of a video, or the image of an image run.
VideoFrameStep == pc = "video" /\ pc' = "video" /\ frame_idx' = frame_idx + 1
ImageStep == /\ pc = "menu" /\ runs' = runs + 1 /\ input_file = "image"
             /\ run_result' = "saved"
             /\ heinsight_module_available /\ heinsight_obj # NoneVal

\* C1: with debouncing on, a metric that qualified with a value v > 0 and
\* has since failed on k consecutive measured frames of the same key is
\* rendered with v while k <= 2 and is not rendered once k >= 3.
C1_GracePeriod ==
    \A rec \in LogRecords : \A mt \in Metrics :
        (rec.deb /\ rec.obs[mt] # None /\ rec.obs[mt][1].k >= 1) =>
            IF rec.obs[mt][1].k <= 2
            THEN Shown(rec.str, mt) = { FmtOf(mt, rec.obs[mt][1].v) }
            ELSE Shown(rec.str, mt) = { }
\* a frame on which the value retained from 4 frames before is hidden
C1_Witness ==
    \E rec \in LogRecords :
        /\ rec.deb /\ rec.obs.T # None /\ rec.obs.T[1].k = 4
        /\ Shown(rec.str, "T") = { }
        /\ rec.obs.C # None /\ rec.obs.C[1].k = 2
        /\ Shown(rec.str, "C") = { 200 }

\* C2: with debouncing on, a metric whose raw decision is true on a frame
\* is rendered on that frame, whatever the measured value (0 included).
C2_ShownWheneverRawTrue ==
    \A rec \in LogRecords : \A mt \in Metrics :
        (rec.deb /\ rec.raw[mt]) => Shown(rec.str, mt) # { }

\* C3: with debouncing on, a qualifying frame sets the entry to the
\* current value with zeroStreak 0, and what is rendered for the metric on
\* that frame is the current value, never a retained one.
C3_NoLagOnReacquisition ==
    \A rec \in LogRecords : \A mt \in Metrics :
        (rec.deb /\ rec.raw[mt]) =>
            /\ rec.post[1][mt] = [last_val |-> rec.m[mt], zero_count |-> 0]
            /\ Shown(rec.str, mt) \subseteq { FmtOf(mt, rec.m[mt]) }
\* a qualifying frame that follows a failing frame on which another value
\* was still retained
C3_Witness ==
    \E rec \in LogRecords :
        /\ rec.deb /\ rec.raw.T
        /\ rec.pre[1].T.zero_count \in {1, 2}
        /\ RPos(rec.pre[1].T.last_val)
        /\ ~REq(rec.pre[1].T.last_val, rec.m.T)
        /\ Fmt1(rec.pre[1].T.last_val) # Fmt1(rec.m.T)
        /\ Shown(rec.str, "T") = { Fmt1(rec.m.T) }

\* C4: when process_video is about to read its first frame, the debounce
\* map is empty.
C4_VideoStartsEmpty ==
    (pc = "video" /\ frame_idx = 0) => debounce_map = << >>
\* a video that starts after a run that left entries in the map
C4_Witness ==
    pc = "video" /\ frame_idx = 0 /\ stale_at_entry /\ debounce_map = << >>

\* C5: the labels of an image run with debouncing on are the labels the
\* same image gets with debouncing off.
C5_ImageDebounceNoOp ==
    [][ (ImageStep /\ debounce_enabled) =>
            last_frame_bboxes' =
                run_detection_on_frame(1, cur_scene'[1], thresholds, FALSE,
                                       debounce_map, streak).labels ]_vars

\* C6: with debouncing off, a processed frame leaves the debounce map
\* unchanged and renders exactly the metrics whose raw decision is true,
\* with the values measured on that frame.
C6_BypassWhenDisabled ==
    [][ ((VideoFrameStep \/ ImageStep) /\ ~debounce_enabled) =>
            /\ debounce_map' = debounce_map
            /\ \A i \in 1..Len(measure_log') : \A mt \in Metrics :
                 Shown(measure_log'[i].str, mt) =
                    IF measure_log'[i].raw[mt]
                    THEN { FmtOf(mt, measure_log'[i].m[mt]) } ELSE { } ]_vars
\* debouncing is off, the map still holds another value for the key that
\* was measured, and the frame shows the value measured now
C6_Witness ==
    /\ ~debounce_enabled
    /\ \E rec \in LogRecords :
        /\ ~rec.deb /\ rec.raw.T
        /\ rec.key \in DOMAIN debounce_map
        /\ ~REq(debounce_map[rec.key].T.last_val, rec.m.T)
        /\ Shown(rec.str, "T") = { Fmt1(rec.m.T) }

\* C7: every debounce entry whose zeroStreak is at least 3 has lastValue 0.
C7_ForcedToZero ==
    \A key \in DOMAIN debounce_map : \A mt \in Metrics :
        debounce_map[key][mt].zero_count >= 3 =>
            debounce_map[key][mt].last_val.n = 0
\* an entry that held a positive value and has now failed 3 times
C7_Witness ==
    \E key \in DOMAIN debounce_map :
        /\ debounce_map[key].T.zero_count = 3
        /\ key \in DOMAIN streak
        /\ streak[key].T # None /\ streak[key].T[1].k = 3

\* C8: every box of the drawable sequence lies in the frame, sorted.
C8_BoxesInFrame ==
    \A i \in 1..Len(all_boxes) :
        /\ 0 <= all_boxes[i][1] /\ all_boxes[i][1] <= all_boxes[i][3]
        /\ all_boxes[i][3] <= FrameShape.w
        /\ 0 <= all_boxes[i][2] /\ all_boxes[i][2] <= all_boxes[i][4]
        /\ all_boxes[i][4] <= FrameShape.h
\* a vessel reported partly outside the frame or inverted, drawn with a
\* content box
C8_Witness ==
    /\ cur_scene # None /\ Len(cur_scene[1]) = 1
    /\ LET v == parse_box_info(cur_scene[1][1], VialNames)
       IN  v.x1 < 0 \/ v.x2 > FrameShape.w \/ v.x1 > v.x2 \/ v.y1 > v.y2
    /\ Len(all_boxes) = 2

\* C9: a content box is its crop-local box moved by the top-left corner of
\* the vessel box used for the crop, cut to the frame and sorted; vessel
\* (10,10,110,110) and local (5,5,15,15) give (15,15,25,25).
IntoFrame(v, n) == IF v < 0 THEN 0 ELSE IF v > n THEN n ELSE v
Ordered(a, b) == IF a <= b THEN << a, b >> ELSE << b, a >>
\* the corner of the box the code crops with: the clipped box of a vessel
\* that is drawn, the box as reported for a vessel that is not
CropCorner(vbox) ==
    LET v == parse_box_info(vbox, VialNames)
        drawn == ~(Lower(v.label) = S_vessel /\ ~show_label_vessel)
    IN  IF drawn
        THEN << Ordered(IntoFrame(v.x1, FrameShape.w),
                        IntoFrame(v.x2, FrameShape.w))[1],
                Ordered(IntoFrame(v.y1, FrameShape.h),
                        IntoFrame(v.y2, FrameShape.h))[1] >>
        ELSE << v.x1, v.y1 >>
ExpectedContentBox(vbox, cbox) ==
    LET c == parse_box_info(cbox, ContentNames)
        corner == CropCorner(vbox)
        xs == Ordered(IntoFrame(c.x1 + corner[1], FrameShape.w),
                      IntoFrame(c.x2 + corner[1], FrameShape.w))
        ys == Ordered(IntoFrame(c.y1 + corner[2], FrameShape.h),
                      IntoFrame(c.y2 + corner[2], FrameShape.h))
    IN  << xs[1], ys[1], xs[2], ys[2] >>
C9_ContentOffset ==
    [][ (ImageStep /\ Len(cur_scene'[1]) = 1
                   /\ Len(cur_scene'[1][1].contents) = 1) =>
          LET vbox == cur_scene'[1][1]
              cbox == vbox.contents[1]
          IN  \A i \in 1..Len(all_boxes') :
                all_boxes'[i][5].label = ContentNames[cbox.cls] =>
                  /\ SubSeq(all_boxes'[i], 1, 4) = ExpectedContentBox(vbox, cbox)
                  /\ (vbox.xyxy = << 20, 20, 220, 220 >>
                      /\ cbox.xyxy = << 10, 10, 30, 30 >>) =>
                        SubSeq(all_boxes'[i], 1, 4) = << 15, 15, 25, 25 >> ]_vars
\* the example of the specification
C9_Witness ==
    /\ cur_scene # None /\ Len(cur_scene[1]) = 1
    /\ cur_scene[1][1].xyxy = << 20, 20, 220, 220 >>
    /\ Len(cur_scene[1][1].contents) = 1
    /\ cur_scene[1][1].contents[1].xyxy = << 10, 10, 30, 30 >>
    /\ Len(all_boxes) = 2
    /\ SubSeq(all_boxes[1], 1, 4) = << 10, 10, 110, 110 >>
    /\ SubSeq(all_boxes[2], 1, 4) = << 15, 15, 25, 25 >>

\* C10: a video frame for which the vessel stage finds nothing is written
\* as the input frame, without boxes and without summary lines, the label
\* list is empty, and the loop goes on.
C10_NoVesselPassThrough ==
    [][ (VideoFrameStep /\ cur_scene' = Some(<< >>)) =>
            /\ last_output' =
                 Some([left |-> IF side_by_side
                                THEN Some(OriginalFrame(frame_idx'))
                                ELSE None,
                       right |-> OriginalFrame(frame_idx'),
                       lines |-> << >>])
            /\ last_frame_bboxes' = << >>
            /\ all_boxes' = << >>
            /\ debounce_map' = debounce_map
            /\ pc' = "video" ]_vars
\* the summary is on, an earlier frame of the video had labels, and this
\* frame has no vessel
C10_Witness ==
    /\ pc = "video" /\ frame_idx >= 2 /\ written = frame_idx
    /\ show_top_left_list
    /\ cur_scene = Some(<< >>)
    /\ last_output # None /\ last_output[1].lines = << >>

\* C11: on every processed frame, the raw show decision of each metric of
\* each measured box is: advanced overlay on, and the metric's own toggle
\* on, and (no thresholds configured, or the measured value >= the metric's
\* own minimum, equality included).
MetricToggle(mt) ==
    IF mt = "T" THEN show_metric_t
    ELSE IF mt = "C" THEN show_metric_c ELSE show_metric_v
MetricMinimum(mt) ==
    IF mt = "T" THEN thresholds[1].turb
    ELSE IF mt = "C" THEN thresholds[1].col ELSE thresholds[1].vol
C11_RawShowDecision ==
    [][ (VideoFrameStep \/ ImageStep) =>
          \A i \in 1..Len(measure_log') : \A mt \in Metrics :
             measure_log'[i].raw[mt] =
                (/\ advanced_overlay
                 /\ MetricToggle(mt)
                 /\ (thresholds = None
                     \/ RGeq(measure_log'[i].m[mt], MetricMinimum(mt)))) ]_vars
\* a video frame whose hue and volume fraction equal their minimum and are
\* shown, while the turbidity toggle is off and hides a turbidity above
\* its minimum
C11_Witness ==
    /\ pc = "video" /\ frame_idx >= 1 /\ thresholds # None
    /\ ~show_metric_t /\ show_metric_c /\ show_metric_v
    /\ \E rec \in LogRecords :
        /\ REq(rec.m.C, thresholds[1].col) /\ rec.raw.C
        /\ REq(rec.m.V, thresholds[1].vol) /\ rec.raw.V
        /\ RGeq(rec.m.T, thresholds[1].turb) /\ ~rec.raw.T

\* The content detections of a scene, as (vessel index, content index).
ContentsOf(scene) ==
    UNION { { << v, c >> : c \in 1..Len(scene[v].contents) } :
            v \in 1..Len(scene) }
ContentLabel(scene, vc) == ContentNames[scene[vc[1]].contents[vc[2]].cls]
VisibleContents(scene) ==
    { vc \in ContentsOf(scene) : class_label_is_visible(ContentLabel(scene, vc)) }
ContentLabels == { ContentNames[i] : i \in 1..Len(ContentNames) }
ContentBoxes(boxes) ==
    { i \in 1..Len(boxes) : boxes[i][5].label \in ContentLabels }

\* C12: on an annotated image, every content box of the drawable sequence
\* has a class the visibility policy shows, there are no more content
\* boxes, measurements and colour patches than visible content detections,
\* and only keys that were measured are added to or changed in the
\* debounce map; when every content detection of the frame is hidden,
\* nothing is measured, no patch is drawn and the map is unchanged.
C12_HiddenContentDropped ==
    [][ ImageStep =>
          LET scene == cur_scene'[1]
              nvis == Cardinality(VisibleContents(scene))
              keys == { measure_log'[i].key : i \in 1..Len(measure_log') }
          IN  /\ \A i \in ContentBoxes(all_boxes') :
                    class_label_is_visible(all_boxes'[i][5].label)
              /\ Cardinality(ContentBoxes(all_boxes')) <= nvis
              /\ Len(measure_log') <= nvis
              /\ Len(last_output'[1].right.patches) <= nvis
              /\ \A k \in DOMAIN debounce_map' :
                    (k \notin DOMAIN debounce_map
                     \/ debounce_map'[k] # debounce_map[k]) => k \in keys
              /\ DOMAIN debounce_map \subseteq DOMAIN debounce_map' ]_vars
\* debouncing is on, 'hetero' is hidden, and of a vessel's two liquids only
\* the 'Homo' one is drawn, measured and entered in the map
C12_Witness ==
    /\ debounce_enabled /\ ~show_label_hetero /\ run_result = "saved"
    /\ cur_scene # None /\ Len(cur_scene[1]) = 1
    /\ Len(cur_scene[1][1].contents) = 2
    /\ cur_scene[1][1].contents[2].cls = cHetero
    /\ Len(all_boxes) = 2
    /\ Len(measure_log) = 1
    /\ Cardinality(DOMAIN debounce_map) = 1

VialLabels == { VialNames[i] : i \in 1..Len(VialNames) }
VesselBoxes(boxes) ==
    { i \in 1..Len(boxes) : boxes[i][5].label \in VialLabels }
\* the vessel box cut to the frame and sorted has a non-empty crop
ClippedCropNonEmpty(vbox) ==
    LET v == parse_box_info(vbox, VialNames)
        xs == Ordered(IntoFrame(v.x1, FrameShape.w), IntoFrame(v.x2, FrameShape.w))
        ys == Ordered(IntoFrame(v.y1, FrameShape.h), IntoFrame(v.y2, FrameShape.h))
    IN  xs[1] < xs[2] /\ ys[1] < ys[2]

\* C13: on an annotated image, no vessel box whose label the visibility
\* policy hides is in the drawable sequence, and a vessel that is hidden
\* still has each of its visible content detections emitted (its crop,
\* cut to the frame, being non-empty).
C13_HiddenVesselStillCropped ==
    [][ ImageStep =>
          LET scene == cur_scene'[1]
          IN  /\ \A i \in VesselBoxes(all_boxes') :
                    class_label_is_visible(all_boxes'[i][5].label)
              /\ (Len(scene) = 1
                  /\ ~class_label_is_visible(VialNames[scene[1].cls])
                  /\ ClippedCropNonEmpty(scene[1])) =>
                    Cardinality(ContentBoxes(all_boxes')) =
                        Cardinality(VisibleContents(scene)) ]_vars

\* C14: every box used as a stage-2 crop region (and as the offset of the
\* content coordinates) lies in the frame: 0 <= x1 <= x2 <= width and
\* 0 <= y1 <= y2 <= height.
C14_CropRegionClipped ==
    \A i \in 1..Len(vessel_crops) :
        LET b == vessel_crops[i].box
        IN  /\ 0 <= b[1] /\ b[1] <= b[3] /\ b[3] <= FrameShape.w
            /\ 0 <= b[2] /\ b[2] <= b[4] /\ b[4] <= FrameShape.h

\* the number of boxes the i-th vessel of the frame added to all_boxes
BoxesOfVessel(i) ==
    (IF i < Len(vessel_crops) THEN vessel_crops[i + 1].boxes_before
     ELSE Len(all_boxes)) - vessel_crops[i].boxes_before

\* C15: a vessel whose crop has zero area does not have the content
\* detector called on its crop and adds no box, its own included, to the
\* drawable sequence; every vessel of the frame is gone through.
C15_ZeroAreaVesselSkipped ==
    /\ cur_scene # None => Len(vessel_crops) = Len(cur_scene[1])
    /\ \A i \in 1..Len(vessel_crops) :
          vessel_crops[i].size = 0 =>
              ~vessel_crops[i].predicted /\ BoxesOfVessel(i) = 0

\* C16: whenever process_video is left after it opened the source and
\* created the writer (by a failed read or by an exception raised while a
\* frame is processed), the capture and the writer have been released.
C16_ReleasedOnEveryExit ==
    [][ (pc = "video" /\ pc' = "menu") => (~cap_open' /\ ~out_open') ]_vars

\* A step that ends a run on which process_image was called.
ImageRunStep == /\ pc = "menu" /\ runs' = runs + 1 /\ input_file = "image"
                /\ heinsight_module_available /\ heinsight_obj # NoneVal
\* A step that ends process_video after the source was opened.
VideoRunEnd == pc = "video" /\ pc' = "menu"

\* C17: a run is reported as saved only when its output was written: an
\* image run that returned is 'saved' exactly when the image was written,
\* and a video run is 'saved' only if the writer had opened and every
\* frame read was written.
C17_WriteFailureSurfaced ==
    [][ /\ (ImageRunStep /\ run_result' \in {"saved", "not_saved"}) =>
              ((run_result' = "saved") <=> (written' = 1))
        /\ (VideoRunEnd /\ run_result' = "saved") =>
              (out_vid_ok /\ written' = frame_idx') ]_vars

\* C18: a run whose image cannot be read or whose video source cannot be
\* opened ends as 'not saved' without a call of the detector (the last
\* frame's boxes, labels, measurements and crops are those of the run
\* before), without a writer being created and with nothing written.
C18_UnreadableSourceEndsRun ==
    [][ (runs' = runs + 1 /\ read_error') =>
            /\ run_result' = "not_saved"
            /\ pc' = "menu"
            /\ written' = 0
            /\ UNCHANGED << last_frame_bboxes, cur_scene, all_boxes,
                            measure_log, vessel_crops, last_output,
                            out_open, out_vid_ok >> ]_vars
\* a second run that could not read its source, after a run that had
\* annotated a frame with boxes
C18_Witness ==
    /\ runs = 2 /\ read_error /\ run_result = "not_saved"
    /\ pc = "menu" /\ written = 0
    /\ all_boxes # << >> /\ last_frame_bboxes # << >>

SegmentOf(boxes, crops, i) ==
    SubSeq(boxes, crops[i].boxes_before + 1,
           IF i < Len(crops) THEN crops[i + 1].boxes_before ELSE Len(boxes))
LabelConf(text) == [label |-> text.label, conf |-> text.conf]
\* a vessel detection's own box, when it is drawn, then its visible
\* content detections as the content stage returned them
ExpectedSegment(vbox, predicted) ==
    (IF Lower(VialNames[vbox.cls]) = S_vessel /\ ~show_label_vessel
     THEN << >>
     ELSE << [label |-> VialNames[vbox.cls], conf |-> Fmt2(vbox.conf)] >>)
    \o
    (IF predicted
     THEN LET vis == SelectSeq(vbox.contents,
                        LAMBDA c : class_label_is_visible(ContentNames[c.cls]))
          IN  [j \in 1..Len(vis) |->
                 [label |-> ContentNames[vis[j].cls], conf |-> Fmt2(vis[j].conf)]]
     ELSE << >>)

\* C20: the drawable sequence of an annotated image is, vessel after
\* vessel in the order of the vessel stage, the vessel's own box (when it
\* is drawn) followed by its visible content boxes in the order of the
\* content stage.
C20_DetectionOrder ==
    [][ ImageStep =>
          /\ Len(vessel_crops') = Len(cur_scene'[1])
          /\ \A i \in 1..Len(vessel_crops') :
                LET seg == SegmentOf(all_boxes', vessel_crops', i)
                IN  [j \in 1..Len(seg) |-> LabelConf(seg[j][5])] =
                        ExpectedSegment(cur_scene'[1][i],
                                        vessel_crops'[i].predicted)
          /\ (vessel_crops' # << >>) => vessel_crops'[1].boxes_before = 0 ]_vars
\* three vessels; the third one's content boxes are drawn 'Empty' before
\* 'Residue' although 'Residue' is further up and left and less confident
C20_Witness ==
    /\ run_result = "saved" /\ input_file = "image"
    /\ cur_scene # None /\ Len(cur_scene[1]) = 3
    /\ Len(all_boxes) = 7
    /\ all_boxes[5][5].label = VialNames[3]
    /\ all_boxes[6][5].label = ContentNames[cEmpty]
    /\ all_boxes[7][5].label = ContentNames[cResidue]
    /\ all_boxes[7][1] < all_boxes[6][1] /\ all_boxes[7][2] < all_boxes[6][2]
    /\ all_boxes[6][5].conf > all_boxes[7][5].conf
    /\ all_boxes[2][5].conf < all_boxes[3][5].conf

\* the metrics shown for a measured box after gating and debouncing, and
\* the suffix that lists exactly those, in the order T, C, V
ShownAfter(rec, mt) ==
    IF rec.deb THEN RPos(rec.post[1][mt].last_val) ELSE rec.raw[mt]
ValueAfter(rec, mt) ==
    IF rec.deb THEN rec.post[1][mt].last_val ELSE rec.m[mt]
SuffixPart(rec, mt) ==
    IF ShownAfter(rec, mt)
    THEN << [m |-> mt, v |-> FmtOf(mt, ValueAfter(rec, mt))] >> ELSE << >>
ExpectedSuffix(rec) ==
    SuffixPart(rec, "T") \o SuffixPart(rec, "C") \o SuffixPart(rec, "V")
BoxArea(b) == (b[3] - b[1]) * (b[4] - b[2])

\* C21: on an annotated image, a content box whose label begins with
\* 'homo' or 'hetero', with advanced overlay on and a region of non-zero
\* area, was measured, and its suffix lists exactly the metrics shown
\* after gating and debouncing, in the order T, C, V (no suffix when none
\* is shown); every other content box has no suffix; with advanced
\* overlay off nothing is measured and the debounce map is unchanged.
C21_SuffixOnlyForMeasuredLiquids ==
    [][ ImageStep =>
          /\ \A i \in ContentBoxes(all_boxes') :
                LET b == all_boxes'[i]
                IN  IF /\ is_liquid_label(b[5].label) /\ advanced_overlay
                       /\ BoxArea(b) > 0
                    THEN \E j \in 1..Len(measure_log') :
                            /\ measure_log'[j].key = SubSeq(b, 1, 4)
                            /\ b[5].measure = ExpectedSuffix(measure_log'[j])
                    ELSE b[5].measure = << >>
          /\ ~advanced_overlay =>
                (measure_log' = << >> /\ debounce_map' = debounce_map) ]_vars
\* the turbidity toggle is off and a liquid box carries the suffix C, V
C21_Witness ==
    /\ run_result = "saved" /\ input_file = "image" /\ advanced_overlay
    /\ ~show_metric_t
    /\ \E i \in ContentBoxes(all_boxes) :
         /\ is_liquid_label(all_boxes[i][5].label)
         /\ Len(all_boxes[i][5].measure) = 2
         /\ all_boxes[i][5].measure[1].m = "C"
         /\ all_boxes[i][5].measure[2].m = "V"

Refusals == {"not_imported", "not_loaded", "no_input"}

\* C22: a call of handle_run_detection made while the library is not
\* imported, the models are not loaded or no input file is set is refused
\* with the message of the first of these that applies; a refused call
\* runs no detection, writes nothing and leaves the configuration, the
\* debounce map and the last-frame label list as they were.
C22_RefusedRunChangesNothing ==
    [][ (pc = "menu" /\ runs' = runs + 1) =>
          /\ ~heinsight_module_available =>
                (pc' = "menu" /\ run_result' = "not_imported")
          /\ (heinsight_module_available /\ heinsight_obj = NoneVal) =>
                (pc' = "menu" /\ run_result' = "not_loaded")
          /\ (heinsight_module_available /\ heinsight_obj # NoneVal
              /\ input_file = NoneVal) =>
                (pc' = "menu" /\ run_result' = "no_input")
          /\ (pc' = "menu" /\ run_result' \in Refusals) =>
                UNCHANGED << cfgVars, setupVars, debounce_map,
                             last_frame_bboxes, cur_scene, all_boxes,
                             measure_log, vessel_crops, write_calls,
                             written, last_output, cap_open, out_open >>
        ]_vars
\* a refused second run, after a run that left labels and debounce
\* entries behind
C22_Witness ==
    /\ runs = 2 /\ run_result \in Refusals /\ pc = "menu"
    /\ debounce_map # << >> /\ last_frame_bboxes # << >>
    /\ written = 1

\* run_detection_on_frame called once more on the frame processed last,
\* with the same answers of the detectors, thresholds and toggles
Rerun ==
    run_detection_on_frame(frame_idx, cur_scene[1], thresholds,
                           debounce_enabled, debounce_map, streak)
InVideoAfterFrame == pc = "video" /\ frame_idx >= 1
Undecorated(boxes) ==
    [i \in 1..Len(boxes) |->
        << boxes[i][1], boxes[i][2], boxes[i][3], boxes[i][4],
           boxes[i][5].label, boxes[i][5].conf >>]

Categories ==
    << [name |-> S_vessel, toggle |-> show_label_vessel],
       [name |-> S_solid, toggle |-> show_label_solid],
       [name |-> S_residue, toggle |-> show_label_residue],
       [name |-> S_empty, toggle |-> show_label_empty],
       [name |-> S_homo, toggle |-> show_label_homo],
       [name |-> S_hetero, toggle |-> show_label_hetero] >>
Matching(label) ==
    { k \in 1..Len(Categories) : Contains(Lower(label), Categories[k].name) }
FirstMatchToggle(label) ==
    IF Matching(label) = { } THEN TRUE
    ELSE Categories[CHOOSE k \in Matching(label) :
                        \A k2 \in Matching(label) : k <= k2].toggle

\* C24: on an annotated image with one vessel and one content detection
\* whose crop went to the content stage, the content box is in the
\* drawable sequence exactly when the toggle of the first category (in
\* the order vessel, solid, residue, empty, homo, hetero) whose name is a
\* case-insensitive substring of the label is on, and always when the
\* label contains none of them.
C24_FirstMatchingCategory ==
    [][ (ImageStep /\ Len(cur_scene'[1]) = 1
                   /\ Len(cur_scene'[1][1].contents) = 1
                   /\ vessel_crops'[1].predicted) =>
          LET label == ContentNames[cur_scene'[1][1].contents[1].cls]
          IN  /\ (ContentBoxes(all_boxes') # { }) <=> FirstMatchToggle(label)
              /\ Matching(label) = { } => ContentBoxes(all_boxes') # { }
        ]_vars
\* 'Hetero Homo' is hidden by the 'homo' toggle although 'hetero' is on
\* and comes first in the label
C24_Witness ==
    /\ run_result = "saved" /\ input_file = "image"
    /\ ~show_label_homo /\ show_label_hetero
    /\ cur_scene # None /\ Len(cur_scene[1]) = 1
    /\ Len(cur_scene[1][1].contents) = 1
    /\ cur_scene[1][1].contents[1].cls = cHeteroHomo
    /\ vessel_crops[1].predicted
    /\ ContentBoxes(all_boxes) = { }

\* C25: after every frame that went through run_detection_on_frame, the
\* last-frame label list is the sequence of the texts of that frame's
\* drawable boxes (empty when no vessel was found), and the summary
\* composited onto the frame is that list when the summary is on.
C25_LabelListIsThisFrames ==
    [][ (VideoFrameStep \/ ImageStep) =>
          /\ last_frame_bboxes' =
                [i \in 1..Len(all_boxes') |-> all_boxes'[i][5]]
          /\ cur_scene' = Some(<< >>) => last_frame_bboxes' = << >>
          /\ last_output'[1].lines =
                (IF show_top_left_list THEN last_frame_bboxes' ELSE << >>)
        ]_vars
\* the summary is on and a later frame of a video carries the two labels
\* of its own boxes
C25_Witness ==
    /\ pc = "video" /\ frame_idx >= 2 /\ show_top_left_list
    /\ Len(all_boxes) = 2 /\ Len(last_frame_bboxes) = 2
    /\ last_output # None /\ last_output[1].lines = last_frame_bboxes
    /\ last_output[1].right.src = frame_idx
    /\ \A i \in 1..2 : last_frame_bboxes[i] = all_boxes[i][5]

\* the volume fraction line 928 gives a region for a frame of height 0
VolFracAtHeightZero(key) ==
    measure_liquid_overlay(PixHi, key[1], key[2], key[3], key[4], 0,
                           None, FALSE, << >>).log[1].m.V

\* C26: every measured region has a height between 0 and the frame's
\* height and its volume fraction is that height over the frame's height,
\* between 0 and 1; against a frame height of 0 the volume fraction is 0;
\* and a liquid box of zero area is not measured and has no suffix.
C26_VolumeFractionInUnitRange ==
    /\ \A rec \in LogRecords :
          /\ 0 <= rec.key[4] - rec.key[2]
          /\ rec.key[4] - rec.key[2] <= FrameShape.h
          /\ REq(rec.m.V, R(rec.key[4] - rec.key[2], FrameShape.h))
          /\ RGeq(rec.m.V, RZero) /\ RGeq(R(1, 1), rec.m.V)
          /\ VolFracAtHeightZero(rec.key) = RZero
    /\ \A i \in ContentBoxes(all_boxes) :
          BoxArea(all_boxes[i]) = 0 =>
              /\ all_boxes[i][5].measure = << >>
              /\ \A rec \in LogRecords : rec.key # SubSeq(all_boxes[i], 1, 4)
\* a liquid reported larger than the frame, measured with volume
\* fraction 1
C26_Witness ==
    \E rec \in LogRecords :
        /\ REq(rec.m.V, R(1, 1))
        /\ rec.key = << 0, 0, FrameShape.w, FrameShape.h >>
        /\ Shown(rec.str, "V") = { 100 }

\* C27 (as stated): every debounce entry's zeroStreak is in 0..3.
C27_ZeroStreakSaturates ==
    \A key \in DOMAIN debounce_map : \A mt \in Metrics :
        debounce_map[key][mt].zero_count \in 0..3

\* C27 (amended): zeroStreak is a natural number that is not capped: a
\* measured frame sets it to 0 when the metric qualifies and adds one to
\* it otherwise, from 3 for an entry seen for the first time; every entry
\* whose zeroStreak is 3 or more has lastValue 0 and is not rendered.
C27_ZeroStreakCountsOn ==
    /\ \A key \in DOMAIN debounce_map : \A mt \in Metrics :
          /\ debounce_map[key][mt].zero_count \in Nat
          /\ debounce_map[key][mt].zero_count >= 3 =>
                debounce_map[key][mt].last_val = RZero
    /\ \A rec \in LogRecords : \A mt \in Metrics :
          rec.deb =>
            /\ rec.post[1][mt].zero_count =
                  (IF rec.raw[mt] THEN 0 ELSE rec.pre[1][mt].zero_count + 1)
            /\ rec.post[1][mt].zero_count >= 3 => Shown(rec.str, mt) = { }
\* an entry whose first sightings were all non-qualifying: its zeroStreak
\* has gone past 3
C27_Witness ==
    \E rec \in LogRecords :
        /\ rec.deb /\ ~rec.raw.V
        /\ rec.pre[1].V.zero_count >= 4
        /\ rec.post[1].V.zero_count = rec.pre[1].V.zero_count + 1
        /\ rec.key \in DOMAIN debounce_map
        /\ debounce_map[rec.key].V = rec.post[1].V
        /\ Shown(rec.str, "V") = { }

\* C28: every box drawn for a vessel-stage detection has the vessel colour
\* and every box drawn for a content-stage detection has the other
\* colour, whatever class labels the two detectors returned.
C28_ColourByKind ==
    last_output # None =>
        \A j \in 1..Len(last_output[1].right.drawn) :
            LET d == last_output[1].right.drawn[j]
            IN  /\ d.text.label \in VialLabels => d.color = VesselColor
                /\ d.text.label \in ContentLabels => d.color = OtherColor

\* the boxes of all_boxes drawn for a visible liquid at the coordinates of
\* key
LiquidBoxesAt(boxes, key) ==
    { i \in 1..Len(boxes) :
        /\ BoxKey(boxes[i][1], boxes[i][2], boxes[i][3], boxes[i][4]) = key
        /\ is_liquid_label(boxes[i][5].label)
        /\ class_label_is_visible(boxes[i][5].label) }
\* the keys whose entry is new or different after the step
ChangedKeys ==
    { key \in DOMAIN debounce_map' :
        key \notin DOMAIN debounce_map
        \/ debounce_map'[key] # debounce_map[key] }

\* C29: a frame changes a debounce entry only if advanced overlay and
\* debouncing are on and the frame has a visible liquid box with exactly
\* the key's coordinates, which was measured; a frame without a vessel, a
\* frame with no such box and a frame in which the class is hidden leave
\* lastValue and zeroStreak of the entry as they were.
C29_EntryChangesOnlyWhenMeasured ==
    [][ (VideoFrameStep \/ ImageStep) =>
          /\ \A key \in ChangedKeys :
                /\ advanced_overlay /\ debounce_enabled
                /\ LiquidBoxesAt(all_boxes', key) # { }
                /\ \E i \in 1..Len(measure_log') :
                      measure_log'[i].key = key /\ measure_log'[i].deb
          /\ \A key \in DOMAIN debounce_map :
                (\/ cur_scene'[1] = << >>
                 \/ LiquidBoxesAt(all_boxes', key) = { }) =>
                    /\ key \in DOMAIN debounce_map'
                    /\ debounce_map'[key] = debounce_map[key] ]_vars
\* an image annotated with 'Homo' hidden while the map still holds the
\* entry of the very box the detector reports: the box is not emitted,
\* nothing is measured and the entry is as the video left it
C29_Witness ==
    /\ pc = "menu" /\ input_file = "image" /\ run_result = "saved"
    /\ ~show_label_homo /\ advanced_overlay /\ debounce_enabled
    /\ cur_scene # None /\ Len(cur_scene[1]) = 1
    /\ Len(cur_scene[1][1].contents) = 1
    /\ ContentNames[cur_scene[1][1].contents[1].cls] = ContentNames[cHomo]
    /\ Len(all_boxes) = 1 /\ measure_log = << >>
    /\ \E key \in DOMAIN debounce_map :
          debounce_map[key].T.zero_count \in 0..2

\* what one measured frame makes of an entry, from the entry and the raw
\* decision and value of its own metric
ExpectedEntry(entry, raw, val) ==
    IF raw THEN [last_val |-> val, zero_count |-> 0]
    ELSE [last_val |-> IF entry.zero_count + 1 >= 3 THEN RZero
                       ELSE entry.last_val,
          zero_count |-> entry.zero_count + 1]
\* the keys measured with debouncing on in the frame of the step
MeasuredKeys(log) == { log[i].key : i \in { j \in 1..Len(log) : log[j].deb } }

\* C30: debounce state is independent per key and per metric: a measured
\* call starts from the map's entry of its own key (a fresh, hidden one for
\* a key not seen before), gives each of T, C, V what its own raw decision
\* and value make of it, and stores that under its key; the entries of
\* every other key are unchanged; a fresh entry's metric is rendered only
\* if it qualifies; and no key leaves the map except when a video run
\* starts and clears it.
C30_IndependentPerKeyAndMetric ==
    [][ /\ (VideoFrameStep \/ ImageStep) =>
              /\ DOMAIN debounce_map' =
                    DOMAIN debounce_map \cup MeasuredKeys(measure_log')
              /\ \A key \in DOMAIN debounce_map \ MeasuredKeys(measure_log') :
                    debounce_map'[key] = debounce_map[key]
              /\ \A i \in 1..Len(measure_log') :
                    LET rec == measure_log'[i]
                    IN  rec.deb =>
                          /\ rec.pre[1] = (IF rec.key \in DOMAIN debounce_map
                                           THEN debounce_map[rec.key]
                                           ELSE FreshKey)
                          /\ debounce_map'[rec.key] = rec.post[1]
                          /\ \A mt \in Metrics :
                                /\ rec.post[1][mt] =
                                      ExpectedEntry(rec.pre[1][mt],
                                                    rec.raw[mt], rec.m[mt])
                                /\ (rec.key \notin DOMAIN debounce_map
                                    /\ ~rec.raw[mt]) =>
                                      Shown(rec.str, mt) = { }
        /\ ~(DOMAIN debounce_map \subseteq DOMAIN debounce_map') =>
              /\ pc = "menu" /\ runs' = runs + 1 /\ input_file = "video"
              /\ debounce_map' = << >> ]_vars
\* two keys in the map; the frame measured one of them only, its T
\* qualified and is shown while its V, which never qualified, stays
\* hidden with its own count, and the other key's entry is still there
C30_Witness ==
    /\ pc = "video"
    /\ Len(measure_log) = 1
    /\ measure_log[1].deb
    /\ measure_log[1].raw.T /\ ~measure_log[1].raw.V
    /\ measure_log[1].post[1].T.zero_count = 0
    /\ measure_log[1].post[1].V.zero_count >= 4
    /\ Shown(measure_log[1].str, "T") # { }
    /\ Shown(measure_log[1].str, "V") = { }
    /\ debounce_map[measure_log[1].key] = measure_log[1].post[1]
    /\ \E other \in DOMAIN debounce_map :
          /\ other # measure_log[1].key
          /\ debounce_map[other].T.zero_count = 0

====
